---- MODULE Spec2Model ----
(***************************************************************************)
(* Token lifecycle of the expensewise backend: login, refresh (rotation),  *)
(* logout and logout-all of AuthController over the refresh_tokens table,  *)
(* with the JWT helpers of utils/jwt.js.                                    *)
(*                                                                         *)
(* Time is counted in whole seconds, the resolution of the iat/exp claims  *)
(* of a JWT.  A signed token is modelled by the data that determines its   *)
(* string: the signing secret, the payload's userId (email and name are a  *)
(* function of the user), iat and exp.  HS256 is deterministic, so two     *)
(* tokens minted for the same user with the same secret in the same second *)
(* are the same string.                                                    *)
(*                                                                         *)
(* Every "await database.run/get" of a handler is one step: the statement  *)
(* executes atomically when it is called, the handler resumes in a later   *)
(* step.  Any statement may be rejected by the database (dbOk = FALSE).    *)
(***************************************************************************)
EXTENDS Integers, FiniteSets, Sequences, TLC

\* ---- bounds of the model ------------------------------------------------
MaxTime == 2

\* number of requests served in one behaviour
MaxOps == 3

\* JWT_REFRESH_EXPIRES_IN and JWT_EXPIRES_IN, in seconds
RefreshTTL == 2
AccessTTL == 1

Procs == {"p1", "p2"}

UserIds == {1, 2}

Emails == {"a@x.com", "b@x.com", "nobody@x.com"}

Passwords == {"right", "wrong"}

\* ---- state ---------------------------------------------------------------
VARIABLES
  now,     \* the clock, in seconds
  users,   \* the users table
  store,   \* the refresh_tokens table: a set of rows
  req,     \* per request slot: the handler it runs, its locals, its response
  issued,  \* the token pairs handed to clients so far, by their refresh token
  ops,     \* number of requests started so far
  last,    \* the slot in which the latest request started
  reaper,  \* the hourly cleanup timer of server.js and its latest runs
  env      \* process.env: the configured token lifetimes, in seconds

vars == <<now, users, store, req, issued, ops, last, reaper, env>>

\* ---- utils/password -----------------------------------------------------
hashPassword(password) == <<"bcrypt", password>>

comparePassword(password, hash) == hashPassword(password) = hash

\* the passwords validatePassword finds strong enough
StrongPasswords == {"Str0ng#pw"}

validatePassword(password) == password \in StrongPasswords

\* ---- users table --------------------------------------------------------
InitUsers ==
  [u \in UserIds |->
     [email |-> IF u = 1 THEN "a@x.com" ELSE "b@x.com",
      password_hash |-> hashPassword("right"),
      is_active |-> TRUE]]

\* SELECT ... FROM users WHERE email = ? AND is_active = 1   (0: no row)
getUserByEmail(tbl, email) ==
  IF \E u \in UserIds : tbl[u].email = email /\ tbl[u].is_active
    THEN CHOOSE u \in UserIds : tbl[u].email = email /\ tbl[u].is_active
    ELSE 0

\* SELECT ... FROM users WHERE id = ? AND is_active = 1      (0: no row)
getUserById(tbl, userId) ==
  IF userId \in UserIds /\ tbl[userId].is_active THEN userId ELSE 0

\* authenticateUser telling an unknown email from a wrong password
authenticateUser_leaky(tbl, email, password) ==
  LET user == getUserByEmail(tbl, email) IN
    IF user = 0 THEN [user |-> 0, error |-> "User not found"]
    ELSE IF ~comparePassword(password, tbl[user].password_hash)
      THEN [user |-> 0, error |-> "Invalid credentials"]
      ELSE [user |-> user, error |-> ""]

\* authenticateUser up to the password comparison: the user id, or the
\* message of the Error it throws
authenticateUser(tbl, email, password) ==
  LET user == getUserByEmail(tbl, email) IN
    IF user = 0 THEN [user |-> 0, error |-> "Invalid credentials"]
    ELSE IF ~comparePassword(password, tbl[user].password_hash)
      THEN [user |-> 0, error |-> "Invalid credentials"]
      ELSE [user |-> user, error |-> ""]

\* ---- tokens -------------------------------------------------------------
NoToken == [secret |-> "none", userId |-> 0, iat |-> 0, exp |-> 0]

\* a string that is not a JWT signed with one of the server's secrets
Garbage == [secret |-> "foreign", userId |-> 0, iat |-> 0, exp |-> 0]

generateAccessToken(userId, t) ==
  [secret |-> "JWT_SECRET", userId |-> userId, iat |-> t, exp |-> t + env.JWT_EXPIRES_IN]

generateRefreshToken(userId, t) ==
  [secret |-> "JWT_REFRESH_SECRET", userId |-> userId, iat |-> t,
   exp |-> t + env.JWT_REFRESH_EXPIRES_IN]

\* jwt.verify: "ok", or the kind of error it throws
jwtVerify(token, secret, t) ==
  IF token.secret # secret THEN "invalid"
  ELSE IF t >= token.exp THEN "expired"
  ELSE "ok"

\* a verification that also wants the user to have a row in refresh_tokens
verifyAccessToken_session(token, t) ==
  IF \A r \in store : r.user_id # token.userId THEN "invalid"
  ELSE jwtVerify(token, "JWT_SECRET", t)

verifyAccessToken(token, t) == jwtVerify(token, "JWT_SECRET", t)

verifyRefreshToken(token, t) == jwtVerify(token, "JWT_REFRESH_SECRET", t)

\* authenticateToken: "ok" when next() is called, or why the request is
\* refused
authenticateToken(acc, t) ==
  IF acc = NoToken THEN "no_token" ELSE verifyAccessToken(acc, t)

\* ---- refresh_tokens table ------------------------------------------------
\* a row whose expiry is taken from the token's iat instead of its exp
refreshTokenRow_iat(userId, token) ==
  [user_id |-> userId, token |-> token, expires_at |-> token.iat]

\* a row stored without an expiry
refreshTokenRow_unset(userId, token) ==
  [user_id |-> userId, token |-> token, expires_at |-> 0]

\* the row storeRefreshToken inserts
refreshTokenRow(userId, token) ==
  [user_id |-> userId, token |-> token, expires_at |-> token.exp]

\* SELECT * FROM refresh_tokens WHERE token = ? AND expires_at > ?
selectRefreshToken(tbl, token, t) ==
  {r \in tbl : r.token = token /\ r.expires_at > t}

\* a cleanup that drops every row of the user, expired or not
deleteExpiredOfUser_all(tbl, userId, t) == {r \in tbl : r.user_id # userId}

\* DELETE FROM refresh_tokens WHERE user_id = ? AND expires_at < ?
deleteExpiredOfUser(tbl, userId, t) ==
  {r \in tbl : ~(r.user_id = userId /\ r.expires_at < t)}

\* an INSERT that the UNIQUE constraint on token never stops
insertAllowed_any(tbl, row) == TRUE

\* INSERT INTO refresh_tokens: token is UNIQUE
insertAllowed(tbl, row) == \A r \in tbl : r.token # row.token

\* the id column (INTEGER PRIMARY KEY) of the next row.  No statement reads
\* the column; it is what keeps two rows with equal columns apart
nextRowId(tbl) ==
  IF tbl = {} THEN 1
  ELSE 1 + (CHOOSE i \in {r.id : r \in tbl} : \A r \in tbl : r.id <= i)

\* the table after the INSERT of row
insertRow(tbl, row) ==
  tbl \cup {[id |-> nextRowId(tbl), user_id |-> row.user_id,
             token |-> row.token, expires_at |-> row.expires_at]}

\* DELETE FROM refresh_tokens WHERE token = ?
deleteByToken(tbl, token) == {r \in tbl : r.token # token}

\* DELETE FROM refresh_tokens WHERE user_id = ?
deleteByUser(tbl, userId) == {r \in tbl : r.user_id # userId}

\* a validation that does not look the token up in refresh_tokens
validateRefreshToken_unchecked(tbl, token, t, dbOk) ==
  verifyRefreshToken(token, t)

\* validateRefreshToken: "ok", or why it throws
validateRefreshToken(tbl, token, t, dbOk) ==
  LET v == verifyRefreshToken(token, t) IN
    IF v # "ok" THEN v
    ELSE IF ~dbOk THEN "store"
    ELSE IF selectRefreshToken(tbl, token, t) = {} THEN "revoked"
    ELSE "ok"

\* ---- requests in flight ------------------------------------------------

IdleReq ==
  [op |-> "none", pc |-> "idle", tok |-> NoToken, user |-> 0,
   newAccess |-> NoToken, newRefresh |-> NoToken,
   status |-> 0, message |-> "", tokens |-> FALSE,
   cause |-> "", rejected |-> FALSE, seen |-> "", conc |-> {}, after |-> {},
   held |-> {}, bearer |-> NoToken, password |-> ""]

InFlight(q) == req[q].pc \notin {"idle", "done"}

\* a request can start in a slot that holds no running request.  The slots
\* are interchangeable: a request takes the first unused slot while there
\* is one, and otherwise replaces the record of any request that has answered
Free(p) ==
  /\ ops < MaxOps
  /\ \/ req[p].pc = "done" /\ \A q \in Procs : req[q].pc # "idle"
     \/ req[p].pc = "idle" /\ (p = "p1" \/ req["p1"].pc # "idle")

\* no handler is between two of its awaits
Quiet == \A q \in Procs : ~InFlight(q)

\* what the table holds for a token at time t: a row that has not expired
\* ("live"), a row that has ("stale"), or no row ("absent")
RowState(tbl, token, t) ==
  IF \A r \in tbl : r.token # token THEN "absent"
  ELSE IF \E r \in tbl : r.token = token /\ r.expires_at > t THEN "live"
  ELSE "stale"

\* the locals of a handler that starts in slot p.  Besides the code's locals
\* they record, for the properties below: seen, the state of the presented
\* token's row at that moment; conc and after, the slots whose request is
\* running, respectively has answered, at that moment; rejected, whether the
\* database rejected one of its statements
Begin(p, op, tok) ==
  [IdleReq EXCEPT !.op = op, !.tok = tok,
     !.seen = RowState(store, tok, now),
     !.conc = {q \in Procs \ {p} : InFlight(q)},
     !.after = {q \in Procs \ {p} : req[q].pc = "done"}]

\* the response of a handler; data.tokens is sent only with a success.
\* cause records why the handler answered so; "store" stands for a database
\* statement that was rejected
Finish(r, resp, cause, withTokens) ==
  [r EXCEPT !.pc = "done", !.status = resp.status, !.message = resp.message,
     !.tokens = withTokens, !.cause = cause,
     !.rejected = @ \/ cause = "store",
     !.newAccess = IF withTokens THEN @ ELSE NoToken,
     !.newRefresh = IF withTokens THEN @ ELSE NoToken]

\* a request starts in slot p; the request it replaces leaves the records
\* of the other slots
StartReq(p, r) ==
  /\ ops' = ops + 1
  /\ last' = p
  /\ req' = [q \in Procs |->
               IF q = p THEN r
               ELSE [req[q] EXCEPT !.conc = @ \ {p}, !.after = @ \ {p}]]

SetReq(p, r) == req' = [req EXCEPT ![p] = r] /\ UNCHANGED <<ops, last>>

\* what clients can present
HeldRefresh == {i.token : i \in issued}

HeldAccess == {generateAccessToken(i.token.userId, i.token.iat) : i \in issued}

HeldOf(userId) == {t \in HeldRefresh : t.userId = userId}

RowsOf(tbl, userId) == {r \in tbl : r.user_id = userId}

\* JWT_EXPIRES_IN and JWT_REFRESH_EXPIRES_IN as the server is configured
DefaultEnv ==
  [JWT_EXPIRES_IN |-> AccessTTL, JWT_REFRESH_EXPIRES_IN |-> RefreshTTL]

\* initializeDatabase has scheduled the cleanup; it has not run yet.
\* outcome records how the latest run ended, result what it returned
ReaperInit == [scheduled |-> TRUE, outcome |-> "none", result |-> 0]

\* the state in which startServer leaves the process when it is started
\* with the lifetimes e
StartedWith(e) ==
  /\ now = 0
  /\ users = InitUsers
  /\ store = {}
  /\ req = [p \in Procs |-> IdleReq]
  /\ issued = {}
  /\ ops = 0
  /\ last = "none"
  /\ reaper = ReaperInit
  /\ env = e

Init == StartedWith(DefaultEnv)

\* the lifetimes the process may be started with: the regular ones, and an
\* access token lifetime above the refresh token lifetime
Configs ==
  {[JWT_EXPIRES_IN |-> a, JWT_REFRESH_EXPIRES_IN |-> RefreshTTL] :
     a \in {AccessTTL, RefreshTTL + 1}}

ConfigInit == \E e \in Configs : StartedWith(e)

\* ---- responses ----------------------------------------------------------
\* the catch block of login
loginCatch(error) ==
  IF error = "Invalid credentials"
    THEN [status |-> 401, message |-> "Invalid email or password"]
    ELSE [status |-> 500, message |-> "Internal server error during login"]

loginOk == [status |-> 200, message |-> "Login successful"]

refreshMissing == [status |-> 400, message |-> "Refresh token is required"]

refreshNoUser == [status |-> 401, message |-> "User not found"]

\* a catch block that answers an expired token with a message of its own
refreshTokenCatch_distinct(error) ==
  IF error = "expired"
    THEN [status |-> 401, message |-> "Refresh token expired"]
    ELSE [status |-> 401, message |-> "Invalid or expired refresh token"]

\* the catch block of refreshToken: one response for every thrown error
refreshTokenCatch(error) ==
  [status |-> 401, message |-> "Invalid or expired refresh token"]

refreshOk == [status |-> 200, message |-> "Token refreshed successfully"]

\* a logout that reports a failed removal
logoutResponse_strict(removed) ==
  IF removed THEN [status |-> 200, message |-> "Logout successful"]
             ELSE [status |-> 500, message |-> "Logout failed"]

\* logout answers the same whatever removeRefreshToken returned
logoutResponse(removed) == [status |-> 200, message |-> "Logout successful"]

\* logoutAll ignores what removeAllRefreshTokens returned
logoutAllResponse(removed) ==
  [status |-> 200, message |-> "Logged out from all devices successfully"]

authNoToken == [status |-> 401, message |-> "Access token required"]

authInvalid == [status |-> 403, message |-> "Invalid or expired token"]

\* ---- clock --------------------------------------------------------------
Tick ==
  /\ now < MaxTime
  /\ now' = now + 1
  /\ UNCHANGED <<users, store, req, issued, ops, last, reaper, env>>

\* ---- storeRefreshToken, removeRefreshToken, removeAllRefreshTokens --------
\* first statement of storeRefreshToken: drop the user's expired rows
storeCleanup(tbl, userId, t, dbOk) ==
  IF dbOk THEN deleteExpiredOfUser(tbl, userId, t) ELSE tbl

\* second statement of storeRefreshToken: the INSERT; ok is FALSE when the
\* statement is rejected, by the database or by the UNIQUE constraint
storeInsert(tbl, userId, token, dbOk) ==
  LET row == refreshTokenRow(userId, token) IN
    IF dbOk /\ insertAllowed(tbl, row)
      THEN [tbl |-> insertRow(tbl, row), ok |-> TRUE]
      ELSE [tbl |-> tbl, ok |-> FALSE]

\* removeRefreshToken: a rejected DELETE is caught and reported as false
removeRefreshToken(tbl, token, dbOk) ==
  IF dbOk THEN [tbl |-> deleteByToken(tbl, token), result |-> TRUE]
          ELSE [tbl |-> tbl, result |-> FALSE]

\* removeAllRefreshTokens: a rejected DELETE is caught and reported as false
removeAllRefreshTokens(tbl, userId, dbOk) ==
  IF dbOk THEN [tbl |-> deleteByUser(tbl, userId), result |-> TRUE]
          ELSE [tbl |-> tbl, result |-> FALSE]

\* ---- login --------------------------------------------------------------
\* input checks, getUserByEmail and the password comparison
LoginStart(p, email, password) ==
  /\ Free(p)
  /\ \E dbOk \in BOOLEAN :
       LET r0 == Begin(p, "login", NoToken)
           a == authenticateUser(users, email, password)
           why == IF getUserByEmail(users, email) = 0
                    THEN "no_account" ELSE "bad_password"
       IN StartReq(p,
            IF ~dbOk
              THEN Finish(r0, loginCatch("Failed to retrieve user"), "store", FALSE)
            ELSE IF a.error # ""
              THEN Finish(r0, loginCatch(a.error), why, FALSE)
            ELSE [r0 EXCEPT !.pc = "L_update", !.user = a.user])
  /\ UNCHANGED <<now, users, store, issued, reaper, env>>

\* authenticateUser: UPDATE users SET updated_at (the column is not modelled)
LoginUpdate(p) ==
  /\ req[p].pc = "L_update"
  /\ \E dbOk \in BOOLEAN :
       SetReq(p, IF dbOk THEN [req[p] EXCEPT !.pc = "L_store"]
                 ELSE Finish(req[p], loginCatch("database error"), "store", FALSE))
  /\ UNCHANGED <<now, users, store, issued, reaper, env>>

\* mint the pair, then storeRefreshToken's cleanup statement
LoginStore(p) ==
  /\ req[p].pc = "L_store"
  /\ \E dbOk \in BOOLEAN :
       LET r1 == [req[p] EXCEPT
                    !.newAccess = generateAccessToken(req[p].user, now),
                    !.newRefresh = generateRefreshToken(req[p].user, now)]
       IN /\ store' = storeCleanup(store, r1.user, now, dbOk)
          /\ SetReq(p, IF dbOk THEN [r1 EXCEPT !.pc = "S_insert"]
                       ELSE Finish(r1, loginCatch("Failed to store refresh token"),
                                   "store", FALSE))
  /\ UNCHANGED <<now, users, issued, reaper, env>>

\* storeRefreshToken's INSERT and the response of login or refreshToken
StoreInsert(p) ==
  /\ req[p].pc = "S_insert"
  /\ \E dbOk \in BOOLEAN :
       LET r == req[p]
           ins == storeInsert(store, r.user, r.newRefresh, dbOk)
           why == IF dbOk THEN "duplicate" ELSE "store"
       IN /\ store' = ins.tbl
          /\ issued' = IF ins.ok
                         THEN issued \cup {[token |-> r.newRefresh, op |-> r.op]}
                         ELSE issued
          /\ SetReq(p,
               IF ins.ok
                 THEN Finish(r, IF r.op = "login" THEN loginOk ELSE refreshOk,
                             "ok", TRUE)
               ELSE IF r.op = "login"
                 THEN Finish(r, loginCatch("Failed to store refresh token"),
                             why, FALSE)
               ELSE Finish(r, refreshTokenCatch("Failed to store refresh token"),
                           why, FALSE))
  /\ UNCHANGED <<now, users, reaper, env>>

\* ---- refreshToken -------------------------------------------------------
\* the missing-token check and validateRefreshToken
RefreshStart(p, tok) ==
  /\ Free(p)
  /\ \E dbOk \in BOOLEAN :
       LET r0 == Begin(p, "refresh", tok)
           v == validateRefreshToken(store, tok, now, dbOk)
       IN StartReq(p,
            IF tok = NoToken THEN Finish(r0, refreshMissing, "missing", FALSE)
            ELSE IF v # "ok" THEN Finish(r0, refreshTokenCatch(v), v, FALSE)
            ELSE [r0 EXCEPT !.pc = "R_user", !.user = tok.userId])
  /\ UNCHANGED <<now, users, store, issued, reaper, env>>

\* userService.getUserById(decoded.userId)
RefreshGetUser(p) ==
  /\ req[p].pc = "R_user"
  /\ \E dbOk \in BOOLEAN :
       LET u == getUserById(users, req[p].user) IN
         SetReq(p,
           IF ~dbOk
             THEN Finish(req[p], refreshTokenCatch("Failed to retrieve user"),
                         "store", FALSE)
           ELSE IF u = 0 THEN Finish(req[p], refreshNoUser, "nouser", FALSE)
           ELSE [req[p] EXCEPT !.pc = "R_remove", !.user = u])
  /\ UNCHANGED <<now, users, store, issued, reaper, env>>

\* mint the new pair, then removeRefreshToken(old); its result is not read
RefreshRemove(p) ==
  /\ req[p].pc = "R_remove"
  /\ \E dbOk \in BOOLEAN :
       /\ store' = removeRefreshToken(store, req[p].tok, dbOk).tbl
       /\ SetReq(p, [req[p] EXCEPT
                       !.pc = "R_store",
                       !.rejected = @ \/ ~dbOk,
                       !.newAccess = generateAccessToken(req[p].user, now),
                       !.newRefresh = generateRefreshToken(req[p].user, now)])
  /\ UNCHANGED <<now, users, issued, reaper, env>>

\* storeRefreshToken's cleanup statement
RefreshStore(p) ==
  /\ req[p].pc = "R_store"
  /\ \E dbOk \in BOOLEAN :
       /\ store' = storeCleanup(store, req[p].user, now, dbOk)
       /\ SetReq(p, IF dbOk THEN [req[p] EXCEPT !.pc = "S_insert"]
                    ELSE Finish(req[p],
                                refreshTokenCatch("Failed to store refresh token"),
                                "store", FALSE))
  /\ UNCHANGED <<now, users, issued, reaper, env>>

\* ---- logout -------------------------------------------------------------
\* req.user of a logout request: the routes mount no authentication
\* middleware in front of logout, so it is never set (0)
LogoutReqUsers == {0}

\* req.user of a logout request that carries the bearer token acc: no
\* middleware reads the Authorization header on this route
logoutReqUser(acc, t) == 0

\* logout of a request with body.refreshToken = tok, req.user.id = userId
\* and the bearer token acc in its Authorization header
LogoutBearer(p, tok, userId, acc) ==
  /\ Free(p)
  /\ \E dbOk \in BOOLEAN :
       LET r0 == [Begin(p, "logout", tok) EXCEPT !.user = userId,
                                                !.bearer = acc]
           rm == IF tok # NoToken THEN removeRefreshToken(store, tok, dbOk)
                 ELSE IF userId # 0
                   THEN removeAllRefreshTokens(store, userId, dbOk)
                 ELSE [tbl |-> store, result |-> TRUE]
           why == IF ~rm.result THEN "store"
                  ELSE IF rm.tbl # store THEN "removed" ELSE "absent"
       IN /\ store' = rm.tbl
          /\ StartReq(p, Finish(r0, logoutResponse(rm.result), why, FALSE))
  /\ UNCHANGED <<now, users, issued, reaper, env>>

\* a logout request without an Authorization header
Logout(p, tok, userId) == LogoutBearer(p, tok, userId, NoToken)

\* ---- logoutAll, behind authenticateToken ----------------------------------
LogoutAll(p, acc) ==
  /\ Free(p)
  /\ \E dbOk \in BOOLEAN :
       LET r0 == [Begin(p, "logoutAll", NoToken) EXCEPT !.bearer = acc]
           v == authenticateToken(acc, now)
           rm == removeAllRefreshTokens(store, acc.userId, dbOk)
       IN IF v = "no_token"
            THEN /\ store' = store
                 /\ StartReq(p, Finish(r0, authNoToken, v, FALSE))
          ELSE IF v # "ok"
            THEN /\ store' = store
                 /\ StartReq(p, Finish(r0, authInvalid, v, FALSE))
          ELSE /\ store' = rm.tbl
               /\ StartReq(p,
                    Finish([r0 EXCEPT !.user = acc.userId,
                                      !.held = HeldOf(acc.userId)],
                           logoutAllResponse(rm.result),
                           IF rm.result THEN "ok" ELSE "store", FALSE))
  /\ UNCHANGED <<now, users, issued, reaper, env>>

\* ---- changePassword, behind authenticateToken -----------------------------
\* req.body.currentPassword and req.body.newPassword ("": not sent)
CurrentPasswords == Passwords

NewPasswords == StrongPasswords \cup {"weak", ""}

changePasswordMissing ==
  [status |-> 400, message |-> "Current password and new password are required"]

changePasswordWeak ==
  [status |-> 400,
   message |-> "New password does not meet security requirements"]

\* the catch block of changePassword
changePasswordCatch(error) ==
  IF error = "Current password is incorrect"
    THEN [status |-> 400, message |-> "Current password is incorrect"]
    ELSE [status |-> 500, message |-> "Error changing password"]

\* changePassword does not read what removeAllRefreshTokens returned
changePasswordOk(removed) ==
  [status |-> 200,
   message |-> "Password changed successfully. Please login again on all devices."]

\* UPDATE users SET password_hash = ? WHERE id = ?
updatePassword(tbl, userId, password) ==
  [tbl EXCEPT ![userId].password_hash = hashPassword(password)]

\* the middleware, the input checks, and userService.changePassword up to
\* the comparison of the current password
ChangePasswordStart(p, acc, currentPassword, newPassword) ==
  /\ Free(p)
  /\ \E dbOk \in BOOLEAN :
       LET r0 == [Begin(p, "changePassword", NoToken) EXCEPT
                    !.bearer = acc, !.user = acc.userId,
                    !.password = newPassword]
           v == authenticateToken(acc, now)
           u == getUserById(users, acc.userId)
       IN StartReq(p,
            IF v = "no_token" THEN Finish(r0, authNoToken, v, FALSE)
            ELSE IF v # "ok" THEN Finish(r0, authInvalid, v, FALSE)
            ELSE IF currentPassword = "" \/ newPassword = ""
              THEN Finish(r0, changePasswordMissing, "missing", FALSE)
            ELSE IF ~validatePassword(newPassword)
              THEN Finish(r0, changePasswordWeak, "weak", FALSE)
            ELSE IF ~dbOk
              THEN Finish(r0, changePasswordCatch("database error"), "store", FALSE)
            ELSE IF u = 0
              THEN Finish(r0, changePasswordCatch("User not found"), "nouser", FALSE)
            ELSE IF ~comparePassword(currentPassword, users[u].password_hash)
              THEN Finish(r0, changePasswordCatch("Current password is incorrect"),
                          "bad_password", FALSE)
            ELSE [r0 EXCEPT !.pc = "P_update"])
  /\ UNCHANGED <<now, users, store, issued, reaper, env>>

\* userService.changePassword: the UPDATE of users
ChangePasswordUpdate(p) ==
  /\ req[p].pc = "P_update"
  /\ \E dbOk \in BOOLEAN :
       /\ users' = IF dbOk
                     THEN updatePassword(users, req[p].user, req[p].password)
                     ELSE users
       /\ SetReq(p, IF dbOk THEN [req[p] EXCEPT !.pc = "P_remove"]
                    ELSE Finish(req[p], changePasswordCatch("database error"),
                                "store", FALSE))
  /\ UNCHANGED <<now, store, issued, reaper, env>>

\* removeAllRefreshTokens(userId) and the response
ChangePasswordRemove(p) ==
  /\ req[p].pc = "P_remove"
  /\ \E dbOk \in BOOLEAN :
       LET rm == removeAllRefreshTokens(store, req[p].user, dbOk) IN
         /\ store' = rm.tbl
         /\ SetReq(p, Finish([req[p] EXCEPT !.rejected = @ \/ ~rm.result],
                             changePasswordOk(rm.result), "ok", FALSE))
  /\ UNCHANGED <<now, users, issued, reaper, env>>

\* ---- userService.deactivateUser -------------------------------------------
\* how a call of deactivateUser ends: 200 stands for the returned
\* {success: true}, 500 for the rethrown error
deactivateReturn == [status |-> 200, message |-> ""]

deactivateThrow == [status |-> 500, message |-> "Error deactivating user"]

\* UPDATE users SET is_active = 0 WHERE id = ?
setInactive(tbl, userId) == [tbl EXCEPT ![userId].is_active = FALSE]

\* the UPDATE of users
DeactivateStart(p, userId) ==
  /\ Free(p)
  /\ \E dbOk \in BOOLEAN :
       LET r0 == [Begin(p, "deactivate", NoToken) EXCEPT !.user = userId] IN
         /\ users' = IF dbOk THEN setInactive(users, userId) ELSE users
         /\ StartReq(p, IF dbOk THEN [r0 EXCEPT !.pc = "D_remove"]
                        ELSE Finish(r0, deactivateThrow, "store", FALSE))
  /\ UNCHANGED <<now, store, issued, reaper, env>>

\* DELETE FROM refresh_tokens WHERE user_id = ?
DeactivateRemove(p) ==
  /\ req[p].pc = "D_remove"
  /\ \E dbOk \in BOOLEAN :
       /\ store' = IF dbOk THEN deleteByUser(store, req[p].user) ELSE store
       /\ SetReq(p, IF dbOk THEN Finish(req[p], deactivateReturn, "ok", FALSE)
                    ELSE Finish(req[p], deactivateThrow, "store", FALSE))
  /\ UNCHANGED <<now, users, issued, reaper, env>>

\* ---- specifications -----------------------------------------------------
RefreshInputs == HeldRefresh \cup {Garbage, NoToken}

AccessInputs == HeldAccess \cup {Garbage, NoToken}

Next ==
  \/ Tick
  \/ \E p \in Procs :
       \/ \E email \in Emails, password \in Passwords :
            LoginStart(p, email, password)
       \/ LoginUpdate(p)
       \/ LoginStore(p)
       \/ StoreInsert(p)
       \/ \E tok \in RefreshInputs : RefreshStart(p, tok)
       \/ RefreshGetUser(p)
       \/ RefreshRemove(p)
       \/ RefreshStore(p)
       \/ \E tok \in RefreshInputs, userId \in LogoutReqUsers :
            Logout(p, tok, userId)
       \/ \E acc \in AccessInputs : LogoutAll(p, acc)

Spec == Init /\ [][Next]_vars

\* the server started with any of the configurations
ConfigSpec == ConfigInit /\ [][Next]_vars

\* one request at a time: a handler starts only when no other is running
SeqNext ==
  \/ Tick
  \/ \E p \in Procs :
       \/ \E email \in Emails, password \in Passwords :
            Quiet /\ LoginStart(p, email, password)
       \/ LoginUpdate(p)
       \/ LoginStore(p)
       \/ StoreInsert(p)
       \/ \E tok \in RefreshInputs : Quiet /\ RefreshStart(p, tok)
       \/ RefreshGetUser(p)
       \/ RefreshRemove(p)
       \/ RefreshStore(p)
       \/ \E tok \in RefreshInputs, userId \in LogoutReqUsers :
            Quiet /\ Logout(p, tok, userId)
       \/ \E acc \in AccessInputs : Quiet /\ LogoutAll(p, acc)

SeqSpec == Init /\ [][SeqNext]_vars

\* the handlers of Next and changePassword
PasswordNext ==
  \/ Next
  \/ \E p \in Procs :
       \/ \E acc \in AccessInputs, currentPassword \in CurrentPasswords,
             newPassword \in NewPasswords :
            ChangePasswordStart(p, acc, currentPassword, newPassword)
       \/ ChangePasswordUpdate(p)
       \/ ChangePasswordRemove(p)

PasswordSpec == Init /\ [][PasswordNext]_vars

\* logins, and logout requests with or without a refresh token in the body
\* and with or without a bearer token
LogoutNext ==
  \/ Tick
  \/ \E p \in Procs :
       \/ \E email \in Emails, password \in Passwords :
            LoginStart(p, email, password)
       \/ LoginUpdate(p)
       \/ LoginStore(p)
       \/ StoreInsert(p)
       \/ \E tok \in RefreshInputs, acc \in AccessInputs :
            LogoutBearer(p, tok, logoutReqUser(acc, now), acc)

LogoutSpec == Init /\ [][LogoutNext]_vars

\* logins and refreshes, and accounts being deactivated
AccountNext ==
  \/ Tick
  \/ \E p \in Procs :
       \/ \E email \in Emails, password \in Passwords :
            LoginStart(p, email, password)
       \/ LoginUpdate(p)
       \/ LoginStore(p)
       \/ StoreInsert(p)
       \/ \E tok \in RefreshInputs : RefreshStart(p, tok)
       \/ RefreshGetUser(p)
       \/ RefreshRemove(p)
       \/ RefreshStore(p)
       \/ \E userId \in UserIds : DeactivateStart(p, userId)
       \/ DeactivateRemove(p)

AccountSpec == Init /\ [][AccountNext]_vars

\* the same operations, one at a time
AccountSeqNext ==
  \/ Tick
  \/ \E p \in Procs :
       \/ \E email \in Emails, password \in Passwords :
            Quiet /\ LoginStart(p, email, password)
       \/ LoginUpdate(p)
       \/ LoginStore(p)
       \/ StoreInsert(p)
       \/ \E tok \in RefreshInputs : Quiet /\ RefreshStart(p, tok)
       \/ RefreshGetUser(p)
       \/ RefreshRemove(p)
       \/ RefreshStore(p)
       \/ \E userId \in UserIds : Quiet /\ DeactivateStart(p, userId)
       \/ DeactivateRemove(p)

AccountSeqSpec == Init /\ [][AccountSeqNext]_vars

TypeOK ==
  /\ now \in 0..(MaxTime + RefreshTTL)
  /\ \A r \in store : r.user_id \in UserIds
  /\ \A p \in Procs : req[p].status \in {0, 200, 400, 401, 403, 500}

\* ---- the MongoDB variant of utils/jwt.js ---------------------------------
\* Both tokens are signed with JWT_SECRET
generateRefreshTokenMongo(userId, t) ==
  [secret |-> "JWT_SECRET", userId |-> userId, iat |-> t, exp |-> t + env.JWT_REFRESH_EXPIRES_IN]

verifyRefreshTokenMongo(token, t) == jwtVerify(token, "JWT_SECRET", t)

\* the document RefreshToken.create receives
refreshTokenDoc(userId, token) ==
  [user_id |-> userId, token |-> token, expires_at |-> token.exp]

\* RefreshToken.findOne({ token })
findOneRefreshToken(tbl, token) == {r \in tbl : r.token = token}

validateRefreshTokenMongo(tbl, token, t, dbOk) ==
  LET v == verifyRefreshTokenMongo(token, t) IN
    IF v # "ok" THEN v
    ELSE IF ~dbOk THEN "store"
    ELSE IF findOneRefreshToken(tbl, token) = {} THEN "revoked"
    ELSE "ok"

\* RefreshToken.create: token has a unique index; an error is rethrown
storeRefreshTokenMongo(tbl, userId, token, dbOk) ==
  LET doc == refreshTokenDoc(userId, token) IN
    IF dbOk /\ insertAllowed(tbl, doc)
      THEN [tbl |-> insertRow(tbl, doc), ok |-> TRUE]
      ELSE [tbl |-> tbl, ok |-> FALSE]

\* RefreshToken.deleteOne({ token }); an error is rethrown
removeRefreshTokenMongo(tbl, token, dbOk) ==
  IF dbOk THEN [tbl |-> deleteByToken(tbl, token), ok |-> TRUE]
          ELSE [tbl |-> tbl, ok |-> FALSE]

\* RefreshToken.deleteMany({ userId }); an error is rethrown
removeAllRefreshTokensMongo(tbl, userId, dbOk) ==
  IF dbOk THEN [tbl |-> deleteByUser(tbl, userId), ok |-> TRUE]
          ELSE [tbl |-> tbl, ok |-> FALSE]

\* the catch block of logout
logoutCatch == [status |-> 200, message |-> "Logout completed"]

\* the catch block of logoutAll
logoutAllCatch ==
  [status |-> 500, message |-> "Error logging out from all devices"]

\* the TTL index on expiresAt (expireAfterSeconds: 0): the database removes
\* expired documents in the background
MongoTtlReap ==
  /\ \E r \in store : r.expires_at <= now
  /\ store' = {r \in store : r.expires_at > now}
  /\ UNCHANGED <<now, users, req, issued, ops, last, reaper, env>>

\* login: mint the pair, storeRefreshToken, answer
MongoLoginStore(p) ==
  /\ req[p].pc = "L_store"
  /\ \E dbOk \in BOOLEAN :
       LET r1 == [req[p] EXCEPT
                    !.newAccess = generateAccessToken(req[p].user, now),
                    !.newRefresh = generateRefreshTokenMongo(req[p].user, now)]
           ins == storeRefreshTokenMongo(store, r1.user, r1.newRefresh, dbOk)
       IN /\ store' = ins.tbl
          /\ issued' = IF ins.ok
                         THEN issued \cup {[token |-> r1.newRefresh, op |-> "login"]}
                         ELSE issued
          /\ SetReq(p, IF ins.ok THEN Finish(r1, loginOk, "ok", TRUE)
                       ELSE Finish(r1, loginCatch("E11000 duplicate key"),
                                   IF dbOk THEN "duplicate" ELSE "store", FALSE))
  /\ UNCHANGED <<now, users, reaper, env>>

MongoRefreshStart(p, tok) ==
  /\ Free(p)
  /\ \E dbOk \in BOOLEAN :
       LET r0 == Begin(p, "refresh", tok)
           v == validateRefreshTokenMongo(store, tok, now, dbOk)
       IN StartReq(p,
            IF tok = NoToken THEN Finish(r0, refreshMissing, "missing", FALSE)
            ELSE IF v # "ok" THEN Finish(r0, refreshTokenCatch(v), v, FALSE)
            ELSE [r0 EXCEPT !.pc = "R_user", !.user = tok.userId])
  /\ UNCHANGED <<now, users, store, issued, reaper, env>>

\* mint the new pair, then removeRefreshToken(old), which may throw
MongoRefreshRemove(p) ==
  /\ req[p].pc = "R_remove"
  /\ \E dbOk \in BOOLEAN :
       LET rm == removeRefreshTokenMongo(store, req[p].tok, dbOk)
           r1 == [req[p] EXCEPT
                    !.newAccess = generateAccessToken(req[p].user, now),
                    !.newRefresh = generateRefreshTokenMongo(req[p].user, now)]
       IN /\ store' = rm.tbl
          /\ SetReq(p, IF rm.ok THEN [r1 EXCEPT !.pc = "R_store"]
                       ELSE Finish(r1, refreshTokenCatch("database error"),
                                   "store", FALSE))
  /\ UNCHANGED <<now, users, issued, reaper, env>>

\* storeRefreshToken(new) and the answer of refreshToken
MongoRefreshStore(p) ==
  /\ req[p].pc = "R_store"
  /\ \E dbOk \in BOOLEAN :
       LET r == req[p]
           ins == storeRefreshTokenMongo(store, r.user, r.newRefresh, dbOk)
       IN /\ store' = ins.tbl
          /\ issued' = IF ins.ok
                         THEN issued \cup {[token |-> r.newRefresh, op |-> "refresh"]}
                         ELSE issued
          /\ SetReq(p, IF ins.ok THEN Finish(r, refreshOk, "ok", TRUE)
                       ELSE Finish(r, refreshTokenCatch("E11000 duplicate key"),
                                   IF dbOk THEN "duplicate" ELSE "store", FALSE))
  /\ UNCHANGED <<now, users, reaper, env>>

MongoLogout(p, tok, userId) ==
  /\ Free(p)
  /\ \E dbOk \in BOOLEAN :
       LET r0 == [Begin(p, "logout", tok) EXCEPT !.user = userId]
           rm == IF tok # NoToken THEN removeRefreshTokenMongo(store, tok, dbOk)
                 ELSE IF userId # 0
                   THEN removeAllRefreshTokensMongo(store, userId, dbOk)
                 ELSE [tbl |-> store, ok |-> TRUE]
           why == IF ~rm.ok THEN "store"
                  ELSE IF rm.tbl # store THEN "removed" ELSE "absent"
       IN /\ store' = rm.tbl
          /\ StartReq(p, Finish(r0, IF rm.ok THEN logoutResponse(TRUE)
                                             ELSE logoutCatch, why, FALSE))
  /\ UNCHANGED <<now, users, issued, reaper, env>>

MongoLogoutAll(p, acc) ==
  /\ Free(p)
  /\ \E dbOk \in BOOLEAN :
       LET r0 == [Begin(p, "logoutAll", NoToken) EXCEPT !.bearer = acc]
           v == authenticateToken(acc, now)
           rm == removeAllRefreshTokensMongo(store, acc.userId, dbOk)
       IN IF v = "no_token"
            THEN /\ store' = store
                 /\ StartReq(p, Finish(r0, authNoToken, v, FALSE))
          ELSE IF v # "ok"
            THEN /\ store' = store
                 /\ StartReq(p, Finish(r0, authInvalid, v, FALSE))
          ELSE /\ store' = rm.tbl
               /\ StartReq(p,
                    Finish([r0 EXCEPT !.user = acc.userId,
                                      !.held = HeldOf(acc.userId)],
                           IF rm.ok THEN logoutAllResponse(TRUE)
                                    ELSE logoutAllCatch,
                           IF rm.ok THEN "ok" ELSE "store", FALSE))
  /\ UNCHANGED <<now, users, issued, reaper, env>>

MongoNext ==
  \/ Tick
  \/ MongoTtlReap
  \/ \E p \in Procs :
       \/ \E email \in Emails, password \in Passwords :
            LoginStart(p, email, password)
       \/ LoginUpdate(p)
       \/ MongoLoginStore(p)
       \/ \E tok \in RefreshInputs : MongoRefreshStart(p, tok)
       \/ RefreshGetUser(p)
       \/ MongoRefreshRemove(p)
       \/ MongoRefreshStore(p)
       \/ \E tok \in RefreshInputs, userId \in LogoutReqUsers :
            MongoLogout(p, tok, userId)
       \/ \E acc \in AccessInputs \cup HeldRefresh : MongoLogoutAll(p, acc)

MongoSpec == Init /\ [][MongoNext]_vars

\* ---- the cleanup timer of server.js ---------------------------------------
\* a DELETE that removes one expired row at a time
deleteExpired_one(tbl, t) ==
  IF \E r \in tbl : r.expires_at < t
    THEN tbl \ {CHOOSE r \in tbl : r.expires_at < t}
    ELSE tbl

\* a DELETE with the comparison turned round
deleteExpired_live(tbl, t) == {r \in tbl : ~(r.expires_at > t)}

\* DELETE FROM refresh_tokens WHERE expires_at < ?
deleteExpired(tbl, t) == {r \in tbl : ~(r.expires_at < t)}

\* cleanupExpiredTokens: the table afterwards and the value returned,
\* result.changes, or 0 from the catch block when the DELETE was rejected
cleanupExpiredTokens(tbl, t, dbOk) ==
  IF dbOk
    THEN [tbl |-> deleteExpired(tbl, t),
          result |-> Cardinality(tbl \ deleteExpired(tbl, t)),
          failed |-> FALSE]
    ELSE [tbl |-> tbl, result |-> 0, failed |-> TRUE]

\* a timer callback that lets the failure of a run end the process
reaperAfter_fatal(rp, res) ==
  [scheduled |-> ~res.failed,
   outcome |-> IF res.failed THEN "failed" ELSE "ok",
   result |-> res.result]

\* the timer after a run of its callback: setInterval keeps it scheduled,
\* whatever the run did
reaperAfter(rp, res) ==
  [scheduled |-> rp.scheduled,
   outcome |-> IF res.failed THEN "failed" ELSE "ok",
   result |-> res.result]

\* one run of the timer's callback
Sweep(dbOk) ==
  /\ reaper.scheduled
  /\ LET res == cleanupExpiredTokens(store, now, dbOk) IN
       /\ store' = res.tbl
       /\ reaper' = reaperAfter(reaper, res)
  /\ UNCHANGED <<now, users, req, issued, ops, last, env>>

ReaperTick == \E dbOk \in BOOLEAN : Sweep(dbOk)

\* the clock, running on until every token minted by MaxTime has expired
ReaperClock ==
  /\ now < MaxTime + RefreshTTL
  /\ now' = now + 1
  /\ UNCHANGED <<users, store, req, issued, ops, last, reaper, env>>

\* with the cleanup timer running, one request fewer is served, and requests
\* arrive during the first MaxTime seconds
ReaperBudget == ops + 1 < MaxOps /\ now <= MaxTime

ReaperNext ==
  \/ ReaperClock
  \/ ReaperTick
  \/ \E p \in Procs :
       \/ \E email \in Emails, password \in Passwords :
            ReaperBudget /\ LoginStart(p, email, password)
       \/ LoginUpdate(p)
       \/ LoginStore(p)
       \/ StoreInsert(p)
       \/ \E tok \in RefreshInputs : ReaperBudget /\ RefreshStart(p, tok)
       \/ RefreshGetUser(p)
       \/ RefreshRemove(p)
       \/ RefreshStore(p)
       \/ \E tok \in RefreshInputs, userId \in LogoutReqUsers :
            ReaperBudget /\ Logout(p, tok, userId)
       \/ \E acc \in AccessInputs : ReaperBudget /\ LogoutAll(p, acc)

ReaperSpec == Init /\ [][ReaperNext]_vars

\* the clock advances and a run of the cleanup whose DELETE is not rejected
\* keeps coming.
\* the timer at work on the rows that logins leave behind
ReaperLoginNext ==
  \/ ReaperClock
  \/ ReaperTick
  \/ \E p \in Procs :
       \/ \E email \in Emails, password \in Passwords :
            ReaperBudget /\ LoginStart(p, email, password)
       \/ LoginUpdate(p)
       \/ LoginStore(p)
       \/ StoreInsert(p)

ReaperLiveSpec ==
  /\ Init /\ [][ReaperLoginNext]_vars
  /\ WF_vars(ReaperClock) /\ WF_vars(Sweep(TRUE))

\* the handlers that remove rows of refresh_tokens (logout, logoutAll), the
\* logins that hand out tokens, and the requests that go through the
\* authentication middleware
AuthNext ==
  \/ Tick
  \/ \E p \in Procs :
       \/ \E email \in Emails, password \in Passwords :
            LoginStart(p, email, password)
       \/ LoginUpdate(p)
       \/ LoginStore(p)
       \/ StoreInsert(p)
       \/ \E tok \in RefreshInputs, userId \in LogoutReqUsers :
            Logout(p, tok, userId)
       \/ \E acc \in AccessInputs : LogoutAll(p, acc)

AuthSpec == Init /\ [][AuthNext]_vars

\* requests reach the server during the first MaxTime seconds
Arrival == now <= MaxTime

\* logins, each storing its refresh token, with the clock running on until
\* every token minted by MaxTime has expired; no other operation deletes rows
StoreNext ==
  \/ ReaperClock
  \/ \E p \in Procs :
       \/ \E email \in Emails, password \in Passwords :
            Arrival /\ LoginStart(p, email, password)
       \/ LoginUpdate(p)
       \/ LoginStore(p)
       \/ StoreInsert(p)

StoreSpec == Init /\ [][StoreNext]_vars

\* ---- properties ----------------------------------------------------------
Done(p, op) == req[p].op = op /\ req[p].pc = "done"

Success(p) == req[p].status = 200

\* the requests in slots p and q ran at the same time
Overlap(p, q) == q \in req[p].conc \/ p \in req[q].conc

\* the request in slot q started after the one in slot p had answered
StartedAfter(q, p) == p \in req[q].after

\* the step in which a request starts in slot p
Starts(p) == ops' = ops + 1 /\ last' = p

\* the database rejected no statement of the request in slot p
NoStoreFailure(p) == ~req[p].rejected

IssuedByLogin(token) == [token |-> token, op |-> "login"] \in issued

\* C1: two refreshes that overlap and present the same token, live and
\* unexpired when each presented it, end with exactly one success (database
\* rejections aside)
C1_ExactlyOneRefreshWins ==
  \A p \in Procs, q \in Procs :
    ( /\ p # q
      /\ Done(p, "refresh") /\ Done(q, "refresh")
      /\ req[p].tok = req[q].tok
      /\ req[p].seen = "live" /\ req[q].seen = "live"
      /\ Overlap(p, q)
      /\ NoStoreFailure(p) /\ NoStoreFailure(q) )
    => (Success(p) # Success(q))

\* C2: in a sequential history, once a refresh of a token returned by login
\* has succeeded, every later refresh of that token fails (database
\* rejections aside)
C2_RefreshSucceedsOnce ==
  \A p \in Procs, q \in Procs :
    ( /\ p # q
      /\ Done(p, "refresh") /\ Success(p)
      /\ Done(q, "refresh") /\ req[q].tok = req[p].tok
      /\ IssuedByLogin(req[p].tok)
      /\ StartedAfter(q, p)
      /\ NoStoreFailure(p) /\ NoStoreFailure(q) )
    => ~Success(q)

\* the step in which slot p answers a logoutAll with success
LogoutAllReturns(p) ==
  /\ Starts(p)
  /\ req'[p].op = "logoutAll" /\ req'[p].pc = "done" /\ req'[p].status = 200

\* C3: when logoutAll(u) answers success the table holds no row of u and the
\* rows of every other user are as before; and a refresh that starts after
\* the answer with a token u held before the call fails
C3_LogoutAllRevokes ==
  /\ [][\A p \in Procs : LogoutAllReturns(p) =>
          /\ RowsOf(store', req'[p].user) = {}
          /\ \A v \in UserIds \ {req'[p].user} :
               RowsOf(store', v) = RowsOf(store, v)]_vars
  /\ [](\A p \in Procs, q \in Procs :
          ( /\ Done(p, "logoutAll") /\ Success(p)
            /\ Done(q, "refresh") /\ req[q].tok \in req[p].held
            /\ StartedAfter(q, p) )
          => ~Success(q))

\* C4: when a logoutAll(u) whose delete took effect and a refresh of one of
\* u's tokens that was running at that moment have both finished, the table
\* holds no unexpired row of u
C4_LogoutAllBeatsRefresh ==
  \A p \in Procs, q \in Procs :
    ( /\ Done(p, "logoutAll") /\ Success(p) /\ req[p].cause = "ok"
      /\ Done(q, "refresh") /\ req[q].tok.userId = req[p].user
      /\ q \in req[p].conc
      /\ NoStoreFailure(q) )
    => \A r \in RowsOf(store, req[p].user) : r.expires_at <= now

\* C5: a refresh of T that starts after logout(T) has answered fails and
\* returns no tokens
C5_LogoutThenRefreshFails ==
  \A p \in Procs, q \in Procs :
    ( /\ Done(p, "logout") /\ req[p].tok # NoToken
      /\ Done(q, "refresh") /\ req[q].tok = req[p].tok
      /\ StartedAfter(q, p) )
    => (~Success(q) /\ ~req[q].tokens)

\* the step in which a refresh starts in slot p
RefreshStarts(p) == Starts(p) /\ req'[p].op = "refresh"

GenericRefreshFailure(r) ==
  /\ r.pc = "done"
  /\ r.status = 401
  /\ r.message = "Invalid or expired refresh token"
  /\ ~r.tokens

C8_LogoutAlwaysSucceeds ==
  \A p \in Procs :
    Done(p, "logout") =>
      /\ req[p].status = 200
      /\ req[p].message = "Logout successful"
      /\ ~req[p].tokens

\* a logout of a live token whose DELETE was rejected, next to a logout of a
\* token that was not in the table
C8_Witness ==
  \E p \in Procs, q \in Procs :
    /\ Done(p, "logout") /\ req[p].seen = "live" /\ req[p].rejected
    /\ Done(q, "logout") /\ req[q].seen = "absent" /\ req[q].tok # NoToken

\* the step in which slot p answers a login whose credentials were refused
LoginRefused(p) ==
  /\ Starts(p)
  /\ req'[p].op = "login" /\ req'[p].pc = "done"
  /\ req'[p].cause \in {"no_account", "bad_password"}

\* C9: a login with an unknown email and a login with a wrong password get
\* the same answer, 401 "Invalid email or password" without tokens, and
\* neither touches the table
C9_AuthFailedIsUniform ==
  [][\A p \in Procs :
       LoginRefused(p) =>
         /\ req'[p].status = 401
         /\ req'[p].message = "Invalid email or password"
         /\ ~req'[p].tokens /\ req'[p].newRefresh = NoToken
         /\ store' = store /\ issued' = issued]_vars

C9_Witness ==
  \E p \in Procs, q \in Procs :
    /\ Done(p, "login") /\ req[p].cause = "no_account"
    /\ Done(q, "login") /\ req[q].cause = "bad_password"

\* the step in which the INSERT of a login runs
LoginInserts(p) ==
  req[p].op = "login" /\ req[p].pc = "S_insert" /\ req'[p].pc = "done"

C6_ExpiredRowIsNotFoundSqlite ==
  /\ [][\A p \in Procs :
          ( /\ RefreshStarts(p)
            /\ \E r \in store : r.token = req'[p].tok /\ r.expires_at <= now )
          => req'[p].pc = "done" /\ ~req'[p].tokens]_vars
  /\ [](\A r \in store :
          r.expires_at <= now => selectRefreshToken(store, r.token, now) = {})

\* the step in which the INSERT of storeRefreshToken runs for slot p
InsertRuns(p) == req[p].pc = "S_insert" /\ req'[p].pc = "done"

C12_DuplicateIsRetried ==
  [][\A p \in Procs :
       ( /\ InsertRuns(p)
         /\ \E r \in store : r.token = req[p].newRefresh
         /\ req'[p].cause # "store" )
       => /\ req'[p].status = 200 /\ req'[p].tokens
          /\ RowState(store', req'[p].newRefresh, now') = "live"]_vars

\* C13: a token that was handed out and whose row has left the table never
\* has a row again
C13_RemovedTokenStaysRemoved ==
  [][\A token \in HeldRefresh :
       RowState(store, token, now) = "absent"
         => RowState(store', token, now') = "absent"]_vars

\* a step of the cleanup timer
SweepRuns ==
  /\ req' = req /\ now' = now
  /\ store' # store \/ reaper' # reaper

\* C14: a run of the cleanup at time now that is not rejected deletes the
\* rows with expires_at <= now, a row with expires_at = now among them, and
\* no other row, and returns the number of rows it deleted
C14_SweepDeletesUpToNow ==
  [][SweepRuns /\ reaper'.outcome = "ok" =>
       /\ store' = {r \in store : r.expires_at > now}
       /\ reaper'.result = Cardinality(store \ store')]_vars

\* C15: after a run of the cleanup that was not rejected, a second run at the
\* same time with nothing in between deletes no row, returns 0 and leaves
\* the table as it is
C15_SweepIsIdempotent ==
  [][SweepRuns /\ reaper'.outcome = "ok" =>
       cleanupExpiredTokens(store', now', TRUE)
         = [tbl |-> store', result |-> 0, failed |-> FALSE]]_vars

\* a run of the cleanup has deleted rows
C15_Witness == reaper.outcome = "ok" /\ reaper.result > 0

\* C16: the cleanup timer is scheduled at all times, so that after a run
\* whose DELETE was rejected the next tick runs the cleanup again; and such
\* a run changes neither a table nor a request, so that no login, refresh
\* or logout can see it
C16_FailedSweepIsHarmless ==
  /\ [](reaper.scheduled)
  /\ [][SweepRuns /\ reaper'.outcome = "failed" =>
          /\ store' = store /\ users' = users
          /\ req' = req /\ issued' = issued
          /\ reaper'.result = 0]_vars

\* a run of the cleanup was rejected while an expired row was waiting for it
C16_Witness ==
  /\ reaper.outcome = "failed" /\ reaper.scheduled
  /\ \E r \in store : r.expires_at < now

\* C17: time and again the table is free of rows whose expires_at has passed,
\* so every such row is deleted in the end, whether or not a request touches
\* it, given that the clock advances and that runs of the cleanup whose
\* DELETE is not rejected keep coming
C17_ExpiredRowsAreSwept ==
  []<>(\A r \in store : r.expires_at >= now)

\* an expired row that no request is going to touch: every request has
\* answered
C17_Witness ==
  /\ Quiet
  /\ \E r \in store : r.expires_at < now

\* C18: a process started with an access token lifetime above the refresh
\* token lifetime mints no token
C18_BadConfigMintsNothing ==
  env.JWT_EXPIRES_IN > env.JWT_REFRESH_EXPIRES_IN =>
    /\ issued = {}
    /\ \A p \in Procs : req[p].newAccess = NoToken /\ req[p].newRefresh = NoToken

\* the middleware let the request in slot p through
Authenticated(r) == r.cause \in {"ok", "store"}

\* C19: no refresh token that was handed out passes verifyAccessToken, no
\* access token that was handed out passes verifyRefreshToken, and no
\* request carrying a refresh token as its bearer token gets past the
\* authentication middleware
C19_TokensAreBoundToPurpose ==
  /\ \A token \in HeldRefresh : verifyAccessToken(token, now) # "ok"
  /\ \A token \in HeldAccess : verifyRefreshTokenMongo(token, now) # "ok"
  /\ \A p \in Procs :
       Done(p, "logoutAll") /\ req[p].bearer \in HeldRefresh
         => ~Authenticated(req[p])

\* the same statement for the SQLite variant
C19_TokensAreBoundToPurposeSqlite ==
  /\ \A token \in HeldRefresh : verifyAccessToken(token, now) # "ok"
  /\ \A token \in HeldAccess : verifyRefreshToken(token, now) # "ok"
  /\ \A p \in Procs :
       Done(p, "logoutAll") /\ req[p].bearer \in HeldRefresh
         => ~Authenticated(req[p])

\* C20: whether the authentication middleware lets a request through is
\* decided by the bearer token and the clock alone (an access token signed
\* with JWT_SECRET whose expiry lies ahead), whatever refresh_tokens holds:
\* a token issued before a logout or logoutAll is accepted afterwards until
\* it expires
C20_AuthIgnoresTheStore ==
  [][\A p \in Procs :
       Starts(p) /\ req'[p].op = "logoutAll"
         => ( Authenticated(req'[p])
                <=> /\ req'[p].bearer.secret = "JWT_SECRET"
                    /\ now < req'[p].bearer.exp )]_vars

\* an access token is accepted after a logout or a logoutAll has removed
\* every session of its user
C20_Witness ==
  \E p \in Procs, q \in Procs :
    /\ p # q
    /\ Done(q, "logoutAll") \/ Done(q, "logout")
    /\ Success(q) /\ StartedAfter(p, q)
    /\ Done(p, "logoutAll") /\ Authenticated(req[p])
    /\ req[p].bearer \in HeldAccess
    /\ req[q].op = "logoutAll" => req[q].bearer.userId = req[p].bearer.userId
    /\ req[q].op = "logout" => req[q].tok.userId = req[p].bearer.userId
    /\ \A r \in store : r.user_id # req[p].bearer.userId

\* C21: a refresh during which the database rejected a statement, the DELETE
\* of the old token included, answers with an error and hands out no tokens
C21_StoreFailureFailsRefresh ==
  \A p \in Procs :
    Done(p, "refresh") /\ req[p].rejected
      => ~Success(p) /\ ~req[p].tokens

RefreshSucceeds(p) ==
  /\ req[p].op = "refresh" /\ req[p].pc = "S_insert"
  /\ req'[p].pc = "done" /\ req'[p].status = 200

\* C23: when a refresh(T) that met no database failure answers with success,
\* T is absent from refresh_tokens, the returned refresh token is another
\* string than T, and it is in the table for the same user
C23_RefreshReplacesOneByOne ==
  [][\A p \in Procs :
       RefreshSucceeds(p) /\ NoStoreFailure(p) =>
         /\ \A r \in store' : r.token # req[p].tok
         /\ req'[p].newRefresh # req[p].tok
         /\ \E r \in store' : /\ r.token = req'[p].newRefresh
                              /\ r.user_id = req[p].tok.userId]_vars

\* the step in which the changePassword request in slot p answers
ChangePasswordAnswers(p) ==
  /\ req'[p].op = "changePassword" /\ req'[p].pc = "done"
  /\ Starts(p) \/ InFlight(p)

\* C24: when changePassword answers with success, refresh_tokens holds no row
\* of the user; when it answers with a failure, the step leaves refresh_tokens
\* as it was
C24_ChangePasswordRevokes ==
  [][\A p \in Procs :
       ChangePasswordAnswers(p) =>
         IF req'[p].status = 200
           THEN RowsOf(store', req'[p].user) = {}
           ELSE store' = store]_vars

\* C25: a logout without a refresh token whose bearer token is a valid
\* access token leaves no row of that user in refresh_tokens; a logout with
\* a refresh token removes no row but the one of that token
C25_LogoutRemovesWhatItShould ==
  [][\A p \in Procs :
       Starts(p) /\ req'[p].op = "logout" =>
         IF req'[p].tok # NoToken
           THEN /\ store' \subseteq store
                /\ \A r \in store : r.token # req'[p].tok => r \in store'
         ELSE verifyAccessToken(req'[p].bearer, now) = "ok"
                => RowsOf(store', req'[p].bearer.userId) = {}]_vars

\* the half of C25 about a logout that carries a refresh token
C25_LogoutWithTokenRemovesOnlyIt ==
  [][\A p \in Procs :
       Starts(p) /\ req'[p].op = "logout" /\ req'[p].tok # NoToken =>
         /\ store' \subseteq store
         /\ \A r \in store : r.token # req'[p].tok => r \in store']_vars

\* C26: logoutAll answers with success only when the DELETE of the user's
\* rows took effect: a logoutAll whose DELETE was rejected answers with an
\* error, and after a success no row of the user is in refresh_tokens
C26_LogoutAllReportsFailure ==
  [][\A p \in Procs :
       Starts(p) /\ req'[p].op = "logoutAll" /\ Authenticated(req'[p]) =>
         /\ req'[p].rejected => req'[p].status # 200
         /\ req'[p].status = 200 => RowsOf(store', req'[p].user) = {}]_vars

\* the request in slot p answered without tokens and this step wrote nothing
EndsUnchanged(p) ==
  /\ req'[p].pc = "done" /\ req'[p].status # 200 /\ ~req'[p].tokens
  /\ req'[p].newAccess = NoToken /\ req'[p].newRefresh = NoToken
  /\ store' = store /\ issued' = issued

\* C27: a refresh whose token is missing, is not signed with the refresh
\* secret, has expired or has no unexpired row in refresh_tokens ends in its
\* first step, and a refresh whose owner account is not found ends at the
\* user lookup; either way it answers without tokens, and no step of it
\* changes refresh_tokens
C27_FailedValidationWritesNothing ==
  [][\A p \in Procs :
       /\ ( /\ Starts(p) /\ req'[p].op = "refresh"
            /\ \/ req'[p].tok = NoToken
               \/ req'[p].tok.secret # "JWT_REFRESH_SECRET"
               \/ now >= req'[p].tok.exp
               \/ selectRefreshToken(store, req'[p].tok, now) = {} )
          => EndsUnchanged(p)
       /\ Starts(p) /\ req'[p].op = "refresh" => store' = store
       /\ ( /\ req[p].op = "refresh" /\ req[p].pc = "R_user"
            /\ req'[p].pc # req[p].pc
            /\ getUserById(users, req[p].user) = 0 )
          => EndsUnchanged(p)]_vars

\* a refresh has failed because the owner account of its token, which still
\* has its row in the table, is not found
C27_Witness ==
  \E p \in Procs :
    /\ Done(p, "refresh") /\ req[p].cause = "nouser"
    /\ \E r \in store : r.token = req[p].tok

\* the refresh in slot p presents a token of a user for whom a call of
\* deactivateUser had returned before the refresh started
AfterDeactivate(r, p) ==
  /\ r[p].op = "refresh"
  /\ \E q \in r[p].after :
       /\ req[q].op = "deactivate" /\ req[q].pc = "done" /\ req[q].status = 200
       /\ req[q].user = r[p].tok.userId

\* C28: when a refresh starts after deactivateUser(u) has returned, with any
\* token of u, the account of u is not found and refresh_tokens holds no row
\* of u; the refresh fails and stores no row
C28_DeactivatedUserHasNoSession ==
  /\ [][\A p \in Procs :
          Starts(p) /\ AfterDeactivate(req', p) =>
            /\ getUserById(users, req'[p].tok.userId) = 0
            /\ RowsOf(store, req'[p].tok.userId) = {}]_vars
  /\ [][\A p \in Procs :
          AfterDeactivate(req, p) /\ req'[p].pc # req[p].pc =>
            store' = store /\ req'[p].status # 200]_vars

\* the part of C28 about the refresh itself: it fails and stores no row
C28_RefreshAfterDeactivateFails ==
  /\ [][\A p \in Procs :
          Starts(p) /\ AfterDeactivate(req', p) =>
            /\ getUserById(users, req'[p].tok.userId) = 0
            /\ store' = store /\ req'[p].status # 200]_vars
  /\ [][\A p \in Procs :
          AfterDeactivate(req, p) /\ req'[p].pc # req[p].pc =>
            store' = store /\ req'[p].status # 200]_vars

\* the step of the request in slot p that runs the first statement of
\* storeRefreshToken, respectively its INSERT
StoreCleans(p) == req[p].pc \in {"L_store", "R_store"} /\ req'[p].pc # req[p].pc

StoreInserts(p) == req[p].pc = "S_insert" /\ req'[p].pc # req[p].pc

\* C29: storeRefreshToken for user u removes only rows that are owned by u
\* and have expired, and adds at most the row of the new token; it removes
\* no unexpired row and no row of another user
C29_StoreDeletesOnlyOwnExpired ==
  [][\A p \in Procs :
       /\ StoreCleans(p) =>
            /\ store' \subseteq store
            /\ \A r \in store \ store' :
                 r.user_id = req[p].user /\ r.expires_at < now
       /\ StoreInserts(p) =>
            /\ store \subseteq store'
            /\ \A r \in store' \ store :
                 r.token = req[p].newRefresh /\ r.user_id = req[p].user]_vars

\* storeRefreshToken has just dropped an expired row of the user, the only
\* row missing from the table, and kept an unexpired row of another user
C29_Witness ==
  \E p \in Procs, token \in HeldRefresh :
    /\ req[p].pc = "S_insert" /\ req[p].user = token.userId
    /\ token.exp < now
    /\ \A r \in store : r.token # token
    /\ \A q \in Procs : req[q].op \in {"login", "none"}
    /\ \E r \in store : r.user_id # req[p].user /\ r.expires_at > now

====
